---- MODULE Spec2Model ----
(***************************************************************************)
(* A model of duck-rage (src/src/lib.rs): a DuckDB table function that     *)
(* decrypts an age-encrypted JSON secrets file at bind time, builds a      *)
(* CREATE OR REPLACE SECRET statement, and executes it once, on the first  *)
(* poll, over a process-wide connection behind a mutex.                    *)
(*                                                                         *)
(* Text is a sequence of chunks.  Text that comes from the caller or from   *)
(* the decrypted document has one character per chunk; the fixed parts of  *)
(* a format string are kept as longer chunks.                              *)
(***************************************************************************)
EXTENDS Integers, Sequences, FiniteSets, TLC

\* ------------------------------------------------------------------------
\* Text helpers
\* ------------------------------------------------------------------------

UpperCase ==
    <<"A","B","C","D","E","F","G","H","I","J","K","L","M",
      "N","O","P","Q","R","S","T","U","V","W","X","Y","Z">>

LowerCase ==
    <<"a","b","c","d","e","f","g","h","i","j","k","l","m",
      "n","o","p","q","r","s","t","u","v","w","x","y","z">>

\* u8::to_ascii_lowercase on one character
ToLowerChar(ch) ==
    IF \E i \in 1..Len(UpperCase) : UpperCase[i] = ch
    THEN LowerCase[CHOOSE i \in 1..Len(UpperCase) : UpperCase[i] = ch]
    ELSE ch

ToUpperChar(ch) ==
    IF \E i \in 1..Len(LowerCase) : LowerCase[i] = ch
    THEN UpperCase[CHOOSE i \in 1..Len(LowerCase) : LowerCase[i] = ch]
    ELSE ch

\* str::to_ascii_lowercase
to_ascii_lowercase(s) == [i \in 1..Len(s) |-> ToLowerChar(s[i])]

\* every spelling of s in upper and lower case letters
RECURSIVE CaseVariants(_)
CaseVariants(s) ==
    IF Len(s) = 0 THEN {<<>>}
    ELSE {<<h>> \o r : h \in {Head(s), ToUpperChar(Head(s))}, r \in CaseVariants(Tail(s))}

\* ------------------------------------------------------------------------
\* DbType and the providers
\* ------------------------------------------------------------------------

str_postgres   == <<"p","o","s","t","g","r","e","s">>
str_postgresql == <<"p","o","s","t","g","r","e","s","q","l">>
str_mysql      == <<"m","y","s","q","l">>

\* mutant: an unknown kind falls back to Postgres
from_str_Fallback(s) ==
    LET l == to_ascii_lowercase(s) IN
    IF l = str_mysql THEN [ok |-> TRUE, db_type |-> "Mysql"]
    ELSE [ok |-> TRUE, db_type |-> "Postgres"]

\* mutant: only the canonical spelling is accepted (the alias arm is lost)
from_str_NoAlias(s) ==
    LET l == to_ascii_lowercase(s) IN
    IF l = str_postgres THEN [ok |-> TRUE, db_type |-> "Postgres"]
    ELSE IF l = str_mysql THEN [ok |-> TRUE, db_type |-> "Mysql"]
    ELSE [ok |-> FALSE,
          err |-> <<"Unknown db_type '">> \o l \o <<"'. Supported: postgres, mysql">>]

\* DbType::from_str
from_str(s) ==
    LET l == to_ascii_lowercase(s) IN
    IF l = str_postgres \/ l = str_postgresql THEN [ok |-> TRUE, db_type |-> "Postgres"]
    ELSE IF l = str_mysql THEN [ok |-> TRUE, db_type |-> "Mysql"]
    ELSE [ok |-> FALSE,
          err |-> <<"Unknown db_type '">> \o l \o <<"'. Supported: postgres, mysql">>]

\* DbType::provider
provider(db_type) ==
    CASE db_type = "Postgres" -> "PostgresProvider"
      [] db_type = "Mysql"    -> "MySqlProvider"

\* DbProvider::secret_type of the two providers
secret_type(prov) ==
    CASE prov = "PostgresProvider" -> str_postgres
      [] prov = "MySqlProvider"    -> str_mysql

\* ------------------------------------------------------------------------
\* Integers as text
\* ------------------------------------------------------------------------

Digits == <<"0","1","2","3","4","5","6","7","8","9">>

IsDigit(ch) == \E i \in 1..Len(Digits) : Digits[i] = ch

DigitVal(ch) == (CHOOSE i \in 1..Len(Digits) : Digits[i] = ch) - 1

I32_MAX == 2147483647
I32_MIN == (0 - I32_MAX) - 1

\* the digits of s accumulated upwards with checked_mul and checked_add
RECURSIVE AccumulatePos(_, _)
AccumulatePos(acc, s) ==
    IF Len(s) = 0 THEN [ok |-> TRUE, val |-> acc]
    ELSE LET d == DigitVal(Head(s)) IN
         IF acc > (I32_MAX - d) \div 10 THEN [ok |-> FALSE]
         ELSE AccumulatePos(acc * 10 + d, Tail(s))

\* the digits of s accumulated downwards with checked_mul and checked_sub
RECURSIVE AccumulateNeg(_, _)
AccumulateNeg(acc, s) ==
    IF Len(s) = 0 THEN [ok |-> TRUE, val |-> acc]
    ELSE LET d     == DigitVal(Head(s))
             least == IF d = 0 THEN 0 - (I32_MAX \div 10)
                      ELSE 0 - ((0 - (I32_MIN + d)) \div 10)
         IN  IF acc < least THEN [ok |-> FALSE]
             ELSE AccumulateNeg(acc * 10 - d, Tail(s))

\* mutant: a leading '-' is not accepted
parse_i32_NoSign(s) ==
    IF Len(s) = 0 \/ \E i \in 1..Len(s) : ~IsDigit(s[i]) THEN [ok |-> FALSE]
    ELSE AccumulatePos(0, s)

\* <i32 as FromStr>::from_str, reached through str::parse in bind
parse_i32(s) ==
    IF Len(s) = 0 THEN [ok |-> FALSE]
    ELSE
        LET neg  == s[1] = "-"
            body == IF s[1] \in {"+", "-"} THEN Tail(s) ELSE s
        IN  IF Len(body) = 0 \/ \E i \in 1..Len(body) : ~IsDigit(body[i])
            THEN [ok |-> FALSE]
            ELSE IF neg THEN AccumulateNeg(0, body) ELSE AccumulatePos(0, body)

RECURSIVE NatText(_)
NatText(n) ==
    IF n < 10 THEN <<Digits[n + 1]>>
    ELSE NatText(n \div 10) \o <<Digits[(n % 10) + 1]>>

\* Display of an i32, as format! writes it
IntText(n) == IF n < 0 THEN <<"-">> \o NatText(0 - n) ELSE NatText(n)

\* ------------------------------------------------------------------------
\* The statement builder
\* ------------------------------------------------------------------------

\* mutant: the quote is left as it is
RECURSIVE escape_sql_string_Identity(_)
escape_sql_string_Identity(s) ==
    IF Len(s) = 0 THEN <<>>
    ELSE <<Head(s)>> \o escape_sql_string_Identity(Tail(s))

\* escape_sql_string: s.replace('\'', "''")
RECURSIVE escape_sql_string(_)
escape_sql_string(s) ==
    IF Len(s) = 0 THEN <<>>
    ELSE (IF Head(s) = "'" THEN <<"'", "'">> ELSE <<Head(s)>>)
         \o escape_sql_string(Tail(s))

\* DbProvider::create_secret_sql
create_secret_sql(prov, host, port, database, user, password) ==
    <<"CREATE OR REPLACE SECRET duck_rage_">> \o escape_sql_string(database)
    \o <<" ( TYPE ">> \o secret_type(prov)
    \o <<", HOST ", "'">> \o escape_sql_string(host) \o <<"'">>
    \o <<", PORT ">> \o IntText(port)
    \o <<", DATABASE ", "'">> \o escape_sql_string(database) \o <<"'">>
    \o <<", USER ", "'">> \o escape_sql_string(user) \o <<"'">>
    \o <<", PASSWORD ", "'">> \o escape_sql_string(password) \o <<"'">>
    \o <<" )">>

\* ------------------------------------------------------------------------
\* The files the process can see, and the two libraries that read them
\* ------------------------------------------------------------------------

sf_missing == <<"s","0">>
sf_garbage == <<"s","1">>
sf_other   == <<"s","2">>
sf_binary  == <<"s","3">>
sf_text    == <<"s","4">>
sf_doc     == <<"s","5">>

if_missing == <<"i","0">>
if_garbage == <<"i","1">>
if_plugin  == <<"i","2">>
if_A       == <<"i","3">>

key_pw     == <<"p","w">>
key_alt    == <<"a","l","t">>
key_pin    == <<"p","i","n">>
key_none   == <<"n","o">>

pass_1 == <<"h","'","2">>
pass_2 == <<"x","y">>

\* the decrypted document of sf_doc: a JSON object
Document ==
    (key_pw  :> [kind |-> "string", s |-> pass_1]) @@
    (key_alt :> [kind |-> "string", s |-> pass_2]) @@
    (key_pin :> [kind |-> "number", n |-> 777])

\* what std::fs::read / read_to_string find at a path
FileSystem(path) ==
    CASE path = sf_garbage -> [readable |-> TRUE, content |-> [kind |-> "garbage"]]
      [] path = sf_other   -> [readable |-> TRUE,
                               content |-> [kind |-> "age", recipients |-> {"B"},
                                            plaintext |-> [utf8 |-> TRUE, json |-> "object",
                                                           map |-> Document]]]
      [] path = sf_binary  -> [readable |-> TRUE,
                               content |-> [kind |-> "age", recipients |-> {"A"},
                                            plaintext |-> [utf8 |-> FALSE]]]
      [] path = sf_text    -> [readable |-> TRUE,
                               content |-> [kind |-> "age", recipients |-> {"A"},
                                            plaintext |-> [utf8 |-> TRUE, json |-> "invalid"]]]
      [] path = sf_doc     -> [readable |-> TRUE,
                               content |-> [kind |-> "age", recipients |-> {"A"},
                                            plaintext |-> [utf8 |-> TRUE, json |-> "object",
                                                           map |-> Document]]]
      [] path = if_garbage -> [readable |-> TRUE, content |-> [kind |-> "garbage"]]
      [] path = if_plugin  -> [readable |-> TRUE,
                               content |-> [kind |-> "identities", keys |-> {"A"},
                                            loadable |-> FALSE]]
      [] path = if_A       -> [readable |-> TRUE,
                               content |-> [kind |-> "identities", keys |-> {"A"},
                                            loadable |-> TRUE]]
      [] OTHER             -> [readable |-> FALSE]

\* Display of a serde_json::Value
ValueText(v) ==
    CASE v.kind = "string" -> <<"\"">> \o v.s \o <<"\"">>
      [] v.kind = "number" -> IntText(v.n)

\* the text of an error raised inside std, age or serde_json
LibErrorText(lib) == <<"{" , lib, "}">>

\* mutant: the error names the kind of the value, not the value
KeyTypeErrorText_Kind(key, other) ==
    <<"Key '">> \o key \o <<"' in secrets file is not a JSON string (got: ">>
    \o <<other.kind>> \o <<")">>

\* the Some(other) arm of decrypt_age_file
KeyTypeErrorText(key, other) ==
    <<"Key '">> \o key \o <<"' in secrets file is not a JSON string (got: ">>
    \o ValueText(other) \o <<")">>

DecryptFail(kind, err, stages) ==
    [ok |-> FALSE, kind |-> kind, err |-> err, stages |-> stages]

\* str::trim, on a text of one character per chunk
RECURSIVE TrimStart(_)
TrimStart(s) == IF Len(s) > 0 /\ Head(s) = " " THEN TrimStart(Tail(s)) ELSE s

RECURSIVE TrimEnd(_)
TrimEnd(s) ==
    IF Len(s) > 0 /\ s[Len(s)] = " " THEN TrimEnd(SubSeq(s, 1, Len(s) - 1)) ELSE s

\* mutant: the string found under the key is trimmed before it is returned
map_get_Trimmed(map, key, stages) ==
    IF key \notin DOMAIN map THEN
        DecryptFail("KeyNotFoundError",
            <<"Key '">> \o key \o <<"' not found in secrets file">>, stages)
    ELSE IF map[key].kind # "string" THEN
        DecryptFail("KeyTypeError", KeyTypeErrorText(key, map[key]), stages)
    ELSE [ok |-> TRUE, val |-> TrimEnd(TrimStart(map[key].s)), stages |-> stages]

\* the match on map.get(key) that ends decrypt_age_file
map_get(map, key, stages) ==
    IF key \notin DOMAIN map THEN
        DecryptFail("KeyNotFoundError",
            <<"Key '">> \o key \o <<"' not found in secrets file">>, stages)
    ELSE IF map[key].kind # "string" THEN
        DecryptFail("KeyTypeError", KeyTypeErrorText(key, map[key]), stages)
    ELSE [ok |-> TRUE, val |-> map[key].s, stages |-> stages]

\* decrypt_age_file; "stages" lists the steps that ran, in order
decrypt_age_file(path, key, identity_file) ==
    LET sfile == FileSystem(path)
        ifile == FileSystem(identity_file)
        st1 == <<"read_secrets">>
        st2 == st1 \o <<"read_identity">>
        st3 == st2 \o <<"parse_identity">>
        st4 == st3 \o <<"load_identities">>
        st5 == st4 \o <<"parse_container">>
        st6 == st5 \o <<"decrypt">>
        st7 == st6 \o <<"read_plaintext">>
        st8 == st7 \o <<"parse_json">>
        st9 == st8 \o <<"lookup">>
    IN
    IF ~sfile.readable THEN
        DecryptFail("IoError",
            <<"Cannot read secrets file '">> \o path \o <<"': ">> \o LibErrorText("io"), st1)
    ELSE IF ~ifile.readable THEN
        DecryptFail("IoError",
            <<"Cannot read identity file '">> \o identity_file \o <<"': ">>
            \o LibErrorText("io"), st2)
    ELSE IF ifile.content.kind # "identities" THEN
        DecryptFail("IdentityParseError",
            <<"Failed to parse identity file '">> \o identity_file \o <<"': ">>
            \o LibErrorText("age"), st3)
    ELSE IF ~ifile.content.loadable THEN
        DecryptFail("IdentityLoadError",
            <<"Failed to load identities from '">> \o identity_file \o <<"': ">>
            \o LibErrorText("age"), st4)
    ELSE IF sfile.content.kind # "age" THEN
        DecryptFail("DecryptionError",
            <<"Failed to parse age file '">> \o path \o <<"': ">> \o LibErrorText("age"), st5)
    ELSE IF sfile.content.recipients \cap ifile.content.keys = {} THEN
        DecryptFail("DecryptionError",
            <<"Failed to decrypt '">> \o path \o <<"' with identity '">> \o identity_file
            \o <<"': ">> \o LibErrorText("age"), st6)
    ELSE IF ~sfile.content.plaintext.utf8 THEN
        DecryptFail("DecryptionError",
            <<"Failed to read decrypted content: ">> \o LibErrorText("io"), st7)
    ELSE IF sfile.content.plaintext.json # "object" THEN
        DecryptFail("MalformedPayloadError",
            <<"secrets file is not valid JSON: ">> \o LibErrorText("serde_json"), st8)
    ELSE map_get(sfile.content.plaintext.map, key, st9)

\* ------------------------------------------------------------------------
\* RageVTab::bind
\* ------------------------------------------------------------------------

UsageText == <<"\n\n", "Usage: duck_rage(...)">>

BindFail(kind, err, stages) ==
    [ok |-> FALSE, kind |-> kind, err |-> err, stages |-> stages]

\* mutant: the port is looked at before the backend kind
BindWith_PortFirst(p, dec) ==
    LET db  == from_str(p.db_type)
        prt == parse_i32(p.port)
        st1 == <<"parse_port">>
        st2 == <<"parse_db_type", "parse_port">>
    IN
    IF ~prt.ok THEN
        BindFail("InvalidPortError",
            <<"Invalid port '">> \o p.port \o <<"': must be an integer">> \o UsageText, st1)
    ELSE IF ~db.ok THEN
        BindFail("UnsupportedBackendError", db.err \o UsageText, st2)
    ELSE IF ~dec.ok THEN
        BindFail(dec.kind, dec.err \o UsageText, st2 \o dec.stages)
    ELSE
        [ok     |-> TRUE,
         stages |-> st2 \o dec.stages \o <<"build_sql">>,
         data   |-> [host     |-> p.host,
                     port     |-> prt.val,
                     database |-> p.database,
                     user     |-> p.user,
                     create_secret_sql |->
                        create_secret_sql(provider(db.db_type), p.host, prt.val,
                                          p.database, p.user, dec.val)]]

\* the body of RageVTab::bind, given what decrypt_age_file returns (dec);
\* "stages" lists the steps that ran
BindWith(p, dec) ==
    LET db  == from_str(p.db_type)
        prt == parse_i32(p.port)
        st1 == <<"parse_db_type">>
        st2 == st1 \o <<"parse_port">>
    IN
    IF ~db.ok THEN
        BindFail("UnsupportedBackendError", db.err \o UsageText, st1)
    ELSE IF ~prt.ok THEN
        BindFail("InvalidPortError",
            <<"Invalid port '">> \o p.port \o <<"': must be an integer">> \o UsageText, st2)
    ELSE IF ~dec.ok THEN
        BindFail(dec.kind, dec.err \o UsageText, st2 \o dec.stages)
    ELSE
        [ok     |-> TRUE,
         stages |-> st2 \o dec.stages \o <<"build_sql">>,
         data   |-> [host     |-> p.host,
                     port     |-> prt.val,
                     database |-> p.database,
                     user     |-> p.user,
                     create_secret_sql |->
                        create_secret_sql(provider(db.db_type), p.host, prt.val,
                                          p.database, p.user, dec.val)]]

\* mutant: the secret is not recovered at bind time
bind_Lazy(p) == BindWith(p, [ok |-> TRUE, val |-> <<>>, stages |-> <<>>])

\* RageVTab::bind on the parameters p
bind(p) == BindWith(p, decrypt_age_file(p.secrets_file, p.secret_key, p.identity_file))

\* mutant: the row repeats the statement that was run
ConfirmationText_WithStatement(bind_data) ==
    <<"Secret 'duck_rage_">> \o bind_data.database \o <<"' created for ">>
    \o bind_data.user \o <<"@">> \o bind_data.host \o <<":">>
    \o IntText(bind_data.port) \o <<"/">> \o bind_data.database
    \o <<": ">> \o bind_data.create_secret_sql

\* the confirmation row built in RageVTab::func
ConfirmationText(bind_data) ==
    <<"Secret 'duck_rage_">> \o bind_data.database \o <<"' created for ">>
    \o bind_data.user \o <<"@">> \o bind_data.host \o <<":">>
    \o IntText(bind_data.port) \o <<"/">> \o bind_data.database

\* ------------------------------------------------------------------------
\* The calls, the polling threads and the shared connection
\* ------------------------------------------------------------------------

NumCalls   == 2
NumThreads == 2

Calls   == 1..NumCalls
Threads == 1..NumThreads

NoThread == 0
NoCall   == 0

str_oracle == <<"o","r","a","c","l","e">>
str_host   == <<"d","b">>
str_5432   == <<"5","4","3","2">>
str_5x     == <<"5","x">>
str_orders == <<"o","r","d">>
str_svc    == <<"s","v","c">>

\* the parameters the host passes to bind in the call protocol
CallInputs ==
    [db_type       : {str_postgres, str_oracle},
     host          : {str_host},
     port          : {str_5432, str_5x},
     database      : {str_orders},
     user          : {str_svc},
     secrets_file  : {sf_doc, sf_missing},
     secret_key    : {key_pw, key_alt},
     identity_file : {if_A}]

VARIABLES
    loaded,     \* extension_entrypoint: "no", "ok" or "failed"
    conn_set,   \* SIBLING_CONN holds a connection
    lock,       \* the thread holding the Mutex of SIBLING_CONN, or NoThread
    phase,      \* per call: "new", "failed", "bound", "inited"
    params,     \* per call: the parameters the host passed to bind
    bound,      \* per call: what bind returned
    done,       \* per call: RageInitData.done
    polled,     \* per call: some poll of the call has begun
    exec_log,   \* per call: the statements handed to execute_batch, in order
    emitted,    \* per call: the rows its polls have put into their chunks, in order
    results,    \* per call: how its polls have returned: status, number of rows, first
    pc,         \* per thread: where it stands inside func
    cur,        \* per thread inside func: the call it polls
    first,      \* per thread inside func: its poll was the first to begin on the call
    exec_ok,    \* per thread, while it holds the result: execute_batch succeeded
    fn_in,      \* the argument of a function studied on its own
    fn_out      \* its result

vars == <<loaded, conn_set, lock, phase, params, bound, done, polled, exec_log, emitted,
          results, pc, cur, first, exec_ok, fn_in, fn_out>>

NoParams == [db_type |-> <<>>, host |-> <<>>, port |-> <<>>, database |-> <<>>, user |-> <<>>,
             secrets_file |-> <<>>, secret_key |-> <<>>, identity_file |-> <<>>]

NoValue == [set |-> FALSE]

NotBound == [ok |-> FALSE, kind |-> "none", err |-> <<>>, stages |-> <<>>]

InitCalls ==
    /\ loaded = "no"
    /\ conn_set = FALSE
    /\ lock = NoThread
    /\ phase = [c \in Calls |-> "new"]
    /\ params = [c \in Calls |-> NoParams]
    /\ bound = [c \in Calls |-> NotBound]
    /\ done = [c \in Calls |-> FALSE]
    /\ polled = [c \in Calls |-> FALSE]
    /\ exec_log = [c \in Calls |-> <<>>]
    /\ emitted = [c \in Calls |-> <<>>]
    /\ results = [c \in Calls |-> {}]
    /\ pc = [t \in Threads |-> "idle"]
    /\ cur = [t \in Threads |-> NoCall]
    /\ first = [t \in Threads |-> FALSE]
    /\ exec_ok = [t \in Threads |-> FALSE]

Init ==
    /\ InitCalls
    /\ fn_in = NoValue
    /\ fn_out = NoValue

\* extension_entrypoint: clone the connection, keep it, register the function
extension_entrypoint ==
    /\ loaded = "no"
    /\ \E cloned \in BOOLEAN :
         IF cloned
         THEN conn_set' = TRUE /\ loaded' = "ok"
         ELSE conn_set' = conn_set /\ loaded' = "failed"
    /\ UNCHANGED <<lock, phase, params, bound, done, polled, exec_log, emitted, results,
                   pc, cur, first, exec_ok, fn_in, fn_out>>

\* the host binds call c; calls are numbered in the order they are bound
Bind(c) ==
    /\ loaded = "ok"
    /\ phase[c] = "new"
    /\ \A d \in Calls : d < c => phase[d] # "new"
    /\ \E p \in CallInputs :
         LET o == bind(p) IN
         /\ params' = [params EXCEPT ![c] = p]
         /\ bound' = [bound EXCEPT ![c] = o]
         /\ phase' = [phase EXCEPT ![c] = IF o.ok THEN "bound" ELSE "failed"]
    /\ UNCHANGED <<loaded, conn_set, lock, done, polled, exec_log, emitted, results,
                   pc, cur, first, exec_ok, fn_in, fn_out>>

\* RageVTab::init
init(c) ==
    /\ phase[c] = "bound"
    /\ done' = [done EXCEPT ![c] = FALSE]
    /\ phase' = [phase EXCEPT ![c] = "inited"]
    /\ UNCHANGED <<loaded, conn_set, lock, params, bound, polled, exec_log, emitted, results,
                   pc, cur, first, exec_ok, fn_in, fn_out>>

\* func returns on thread t: status and rows of its chunk go to the host
Return(c, t, status, rows) ==
    /\ results' = [results EXCEPT ![c] =
                      @ \cup {[status |-> status, nrows |-> Len(rows), first |-> first[t]]}]
    /\ emitted' = [emitted EXCEPT ![c] = @ \o rows]
    /\ pc' = [pc EXCEPT ![t] = "idle"]
    /\ cur' = [cur EXCEPT ![t] = NoCall]
    /\ first' = [first EXCEPT ![t] = FALSE]

\* mutant: the flag is read, and never written
SwapDone_LoadOnly(flag) == [old |-> flag, new |-> flag]

\* done.swap(true, Relaxed): one indivisible read-and-set
SwapDone(flag) == [old |-> flag, new |-> TRUE]

\* func, up to the swap: thread t begins a poll of call c; when the flag was
\* set already it returns an empty chunk
Swap(c, t) ==
    LET sw == SwapDone(done[c]) IN
    /\ phase[c] = "inited"
    /\ pc[t] = "idle"
    /\ done' = [done EXCEPT ![c] = sw.new]
    /\ polled' = [polled EXCEPT ![c] = TRUE]
    /\ IF sw.old
       THEN /\ results' = [results EXCEPT ![c] =
                              @ \cup {[status |-> "ok", nrows |-> 0, first |-> ~polled[c]]}]
            /\ UNCHANGED <<pc, cur, first>>
       ELSE /\ pc' = [pc EXCEPT ![t] = "get_conn"]
            /\ cur' = [cur EXCEPT ![t] = c]
            /\ first' = [first EXCEPT ![t] = ~polled[c]]
            /\ UNCHANGED results
    /\ UNCHANGED <<loaded, conn_set, lock, phase, params, bound, exec_log, emitted,
                   exec_ok, fn_in, fn_out>>

\* execute_sql_on_current_db: SIBLING_CONN.get().ok_or(..)?
GetConn(t) ==
    /\ pc[t] = "get_conn"
    /\ IF conn_set
       THEN /\ pc' = [pc EXCEPT ![t] = "lock"]
            /\ UNCHANGED <<results, emitted, cur, first>>
       ELSE Return(cur[t], t, "err", <<>>)
    /\ UNCHANGED <<loaded, conn_set, lock, phase, params, bound, done, polled, exec_log,
                   exec_ok, fn_in, fn_out>>

\* mutant: the lock is taken whether or not it is free
LockFree_Always(holder) == TRUE

\* Mutex::lock blocks until no thread holds the mutex
LockFree(holder) == holder = NoThread

\* execute_sql_on_current_db: conn.lock().unwrap()
AcquireLock(t) ==
    /\ pc[t] = "lock"
    /\ LockFree(lock)
    /\ lock' = t
    /\ pc' = [pc EXCEPT ![t] = "run"]
    /\ UNCHANGED <<loaded, conn_set, phase, params, bound, done, polled, exec_log, emitted,
                   results, cur, first, exec_ok, fn_in, fn_out>>

\* execute_sql_on_current_db: execute_batch(sql), which the backend accepts or not
ExecuteBatch(t) ==
    /\ pc[t] = "run"
    /\ \E accepted \in BOOLEAN :
         /\ exec_log' = [exec_log EXCEPT ![cur[t]] =
                Append(@, [sql |-> bound[cur[t]].data.create_secret_sql, ok |-> accepted])]
         /\ exec_ok' = [exec_ok EXCEPT ![t] = accepted]
    /\ pc' = [pc EXCEPT ![t] = "unlock"]
    /\ UNCHANGED <<loaded, conn_set, lock, phase, params, bound, done, polled, emitted,
                   results, cur, first, fn_in, fn_out>>

\* mutant: the chunk is left empty after a successful statement
PollResult_NoRow(bind_data, accepted) ==
    IF accepted
    THEN [status |-> "ok", rows |-> <<>>]
    ELSE [status |-> "err", rows |-> <<>>]

\* mutant: the row is written before the outcome of the statement is looked at
PollResult_RowFirst(bind_data, accepted) ==
    IF accepted
    THEN [status |-> "ok", rows |-> <<ConfirmationText(bind_data)>>]
    ELSE [status |-> "err", rows |-> <<ConfirmationText(bind_data)>>]

\* func after execute_sql_on_current_db(..)?: the row, or the error
PollResult(bind_data, accepted) ==
    IF accepted
    THEN [status |-> "ok", rows |-> <<ConfirmationText(bind_data)>>]
    ELSE [status |-> "err", rows |-> <<>>]

\* the MutexGuard is dropped at the end of the statement, on both paths;
\* func then returns the error, or emits the row and returns
ReleaseLock(t) ==
    LET r == PollResult(bound[cur[t]].data, exec_ok[t]) IN
    /\ pc[t] = "unlock"
    /\ lock' = IF lock = t THEN NoThread ELSE lock
    /\ Return(cur[t], t, r.status, r.rows)
    /\ exec_ok' = [exec_ok EXCEPT ![t] = FALSE]
    /\ UNCHANGED <<loaded, conn_set, phase, params, bound, done, polled, exec_log,
                   fn_in, fn_out>>

Next ==
    \/ extension_entrypoint
    \/ \E c \in Calls : Bind(c)
    \/ \E c \in Calls : init(c)
    \/ \E c \in Calls, t \in Threads : Swap(c, t)
    \/ \E t \in Threads : GetConn(t)
    \/ \E t \in Threads : AcquireLock(t)
    \/ \E t \in Threads : ExecuteBatch(t)
    \/ \E t \in Threads : ReleaseLock(t)

Spec == Init /\ [][Next]_vars

\* ------------------------------------------------------------------------
\* bind on its own, over a wider set of parameters and files
\* ------------------------------------------------------------------------

str_MySQL  == <<"M","y","S","Q","L">>
str_minus1 == <<"-","1">>
str_obrien == <<"o","'","b">>

BindInputs ==
    [db_type       : {str_postgres, str_MySQL, str_oracle},
     host          : {str_host},
     port          : {str_5432, str_5x, str_minus1},
     database      : {str_orders, str_obrien},
     user          : {str_svc},
     secrets_file  : {sf_missing, sf_garbage, sf_other, sf_binary, sf_text, sf_doc},
     secret_key    : {key_pw, key_alt, key_pin, key_none},
     identity_file : {if_missing, if_garbage, if_plugin, if_A}]

InitBind ==
    /\ InitCalls
    /\ fn_in \in {[set |-> TRUE, val |-> p] : p \in BindInputs}
    /\ fn_out = NoValue

\* the host calls bind with the parameters fn_in
RunBind ==
    /\ fn_in.set /\ ~fn_out.set
    /\ fn_out' = [set |-> TRUE, val |-> bind(fn_in.val)]
    /\ UNCHANGED <<loaded, conn_set, lock, phase, params, bound, done, polled, exec_log,
                   emitted, results, pc, cur, first, exec_ok, fn_in>>

NextBind == RunBind

SpecBind == InitBind /\ [][NextBind]_vars

\* ------------------------------------------------------------------------
\* The backend kind on its own, over every spelling of the aliases
\* ------------------------------------------------------------------------

OtherKinds ==
    {<<>>, str_oracle, <<"p","g">>, <<"p","o","s","t","g","r","e">>,
     <<"p","o","s","t","g","r","e","s"," ">>, <<" ","m","y","s","q","l">>,
     <<"m","y","_","s","q","l">>, <<"m","y","s","q","l","l">>,
     <<"P","O","S","T","G","R","E","S","Q">>, <<"m","a","r","i","a","d","b">>}

DbTypeInputs ==
    CaseVariants(str_postgres) \cup CaseVariants(str_postgresql)
    \cup CaseVariants(str_mysql) \cup OtherKinds

InitParse ==
    /\ InitCalls
    /\ fn_in \in {[set |-> TRUE, val |-> s] : s \in DbTypeInputs}
    /\ fn_out = NoValue

\* bind, as far as the backend kind goes: parse it, then take its provider
SelectProvider(s) ==
    LET r == from_str(s) IN
    IF r.ok
    THEN [ok |-> TRUE, db_type |-> r.db_type, tag |-> secret_type(provider(r.db_type))]
    ELSE [ok |-> FALSE, err |-> r.err]

ParseDbType ==
    /\ fn_in.set /\ ~fn_out.set
    /\ fn_out' = [set |-> TRUE, val |-> SelectProvider(fn_in.val)]
    /\ UNCHANGED <<loaded, conn_set, lock, phase, params, bound, done, polled, exec_log,
                   emitted, results, pc, cur, first, exec_ok, fn_in>>

NextParse == ParseDbType

SpecParse == InitParse /\ [][NextParse]_vars

\* ------------------------------------------------------------------------
\* The port on its own, over short texts and the edges of i32
\* ------------------------------------------------------------------------

MaxPortLen == 3

PortAlphabet == {"-", "+", "0", "7", "x"}

RECURSIVE TextsOfLen(_)
TextsOfLen(n) ==
    IF n = 0 THEN {<<>>}
    ELSE {<<ch>> \o r : ch \in PortAlphabet, r \in TextsOfLen(n - 1)}

ShortPortTexts == UNION {TextsOfLen(n) : n \in 0..MaxPortLen}

txt_i32_max      == <<"2","1","4","7","4","8","3","6","4","7">>
txt_i32_min      == <<"-","2","1","4","7","4","8","3","6","4","8">>
txt_over_max     == <<"2","1","4","7","4","8","3","6","4","8">>
txt_under_min    == <<"-","2","1","4","7","4","8","3","6","4","9">>
txt_eleven_nines == <<"9","9","9","9","9","9","9","9","9","9","9">>
txt_padded_max   == <<"0","0","2","1","4","7","4","8","3","6","4","7">>

\* texts at and beyond the edges of i32, and a few with other characters
EdgePortTexts ==
    {txt_i32_max, txt_i32_min, txt_over_max, txt_under_min, txt_eleven_nines,
     txt_padded_max, <<"1",".","5">>, <<" ","7">>, <<"7"," ">>, <<"0","x","7">>,
     <<"5","4","3","2">>, <<"-","5","4","3","2">>}

PortInputs == ShortPortTexts \cup EdgePortTexts

InitPort ==
    /\ InitCalls
    /\ fn_in \in {[set |-> TRUE, val |-> s] : s \in PortInputs}
    /\ fn_out = NoValue

\* bind, as far as the port goes: parse it, or fail with the literal
PortParam(s) ==
    LET r == parse_i32(s) IN
    IF r.ok
    THEN [ok |-> TRUE, val |-> r.val]
    ELSE [ok |-> FALSE, kind |-> "InvalidPortError",
          err |-> <<"Invalid port '">> \o s \o <<"': must be an integer">> \o UsageText]

ParsePort ==
    /\ fn_in.set /\ ~fn_out.set
    /\ fn_out' = [set |-> TRUE, val |-> PortParam(fn_in.val)]
    /\ UNCHANGED <<loaded, conn_set, lock, phase, params, bound, done, polled, exec_log,
                   emitted, results, pc, cur, first, exec_ok, fn_in>>

NextPort == ParsePort

SpecPort == InitPort /\ [][NextPort]_vars

\* ------------------------------------------------------------------------
\* The statement builder on its own, over fields with and without quotes
\* ------------------------------------------------------------------------

FieldTexts ==
    {<<>>, <<"a">>, <<"'">>, <<"o", "'", "b">>, <<"'", "'">>, <<"'", "a", "'">>}

StatementInputs ==
    [prov : {"PostgresProvider", "MySqlProvider"}, host : FieldTexts,
     port : {5432, 0 - 1}, database : FieldTexts, user : FieldTexts,
     password : FieldTexts]

InitStatement ==
    /\ InitCalls
    /\ fn_in \in {[set |-> TRUE, val |-> f] : f \in StatementInputs}
    /\ fn_out = NoValue

BuildStatement ==
    /\ fn_in.set /\ ~fn_out.set
    /\ fn_out' = [set |-> TRUE,
                  val |-> create_secret_sql(fn_in.val.prov, fn_in.val.host, fn_in.val.port,
                                            fn_in.val.database, fn_in.val.user,
                                            fn_in.val.password)]
    /\ UNCHANGED <<loaded, conn_set, lock, phase, params, bound, done, polled, exec_log,
                   emitted, results, pc, cur, first, exec_ok, fn_in>>

NextStatement == BuildStatement

SpecStatement == InitStatement /\ [][NextStatement]_vars

\* ------------------------------------------------------------------------
\* The key lookup on its own, over decrypted documents and keys
\* ------------------------------------------------------------------------

DocumentKeys == {key_pw, key_alt, key_pin}

DocumentValues ==
    {[kind |-> "string", s |-> pass_1], [kind |-> "string", s |-> <<" ", "x", " ">>],
     [kind |-> "string", s |-> <<>>], [kind |-> "number", n |-> 777]}

\* every JSON object over some of the keys
Documents == UNION {[ks -> DocumentValues] : ks \in SUBSET DocumentKeys}

LookupInputs == [map : Documents, key : DocumentKeys \cup {key_none}]

InitLookup ==
    /\ InitCalls
    /\ fn_in \in {[set |-> TRUE, val |-> q] : q \in LookupInputs}
    /\ fn_out = NoValue

Lookup ==
    /\ fn_in.set /\ ~fn_out.set
    /\ fn_out' = [set |-> TRUE, val |-> map_get(fn_in.val.map, fn_in.val.key, <<"lookup">>)]
    /\ UNCHANGED <<loaded, conn_set, lock, phase, params, bound, done, polled, exec_log,
                   emitted, results, pc, cur, first, exec_ok, fn_in>>

NextLookup == Lookup

SpecLookup == InitLookup /\ [][NextLookup]_vars

\* ------------------------------------------------------------------------
\* Properties of the call protocol
\* ------------------------------------------------------------------------

InFunc(t) == pc[t] # "idle"

EmptyReturn == [status |-> "ok", nrows |-> 0, first |-> FALSE]

\* sub occurs in text as a run of consecutive chunks
Contains(text, sub) ==
    \E i \in 1..(Len(text) - Len(sub) + 1) : SubSeq(text, i, i + Len(sub) - 1) = sub

Count(x, seq) == Cardinality({i \in 1..Len(seq) : seq[i] = x})

\* the polls of call c that saw the flag unset: those still on their way to
\* execute_batch, and those that have called it
ObservedUnset(c) ==
    Len(exec_log[c])
    + Cardinality({t \in Threads : cur[t] = c /\ pc[t] \in {"get_conn", "lock", "run"}})

\* C1: under every interleaving of the polls of one call, at most one poll
\* sees the done flag unset, and the statement is handed to the connection
\* at most once.
C1_AtMostOnce ==
    \A c \in Calls : ObservedUnset(c) <= 1 /\ Len(exec_log[c]) <= 1

\* two polls inside one call at once: one still in func, the other already
\* back with an empty chunk
C1_Witness ==
    \E t \in Threads :
        /\ pc[t] \in {"get_conn", "lock", "run", "unlock"}
        /\ EmptyReturn \in results[cur[t]]

\* C2 as stated: the first poll of a bound call emits exactly one row and
\* executes the statement exactly once; every later poll emits no row and
\* executes nothing.
C2_Original ==
    \A c \in Calls :
        /\ Len(exec_log[c]) <= 1
        /\ \A r \in results[c] :
              IF r.first
              THEN r.nrows = 1 /\ Len(exec_log[c]) = 1
              ELSE r.nrows = 0

\* C2 (amended): the first poll of a bound call executes the statement exactly
\* once and emits exactly one row when that execution succeeds; every later
\* poll returns at once with no row and executes nothing.
C2_Idempotent ==
    /\ \A c \in Calls :
        /\ Len(exec_log[c]) <= 1
        /\ Len(emitted[c]) <= 1
        /\ \A r \in results[c] :
              IF r.first
              THEN /\ Len(exec_log[c]) = 1
                   /\ exec_log[c][1].sql = bound[c].data.create_secret_sql
                   /\ exec_log[c][1].ok  => (r.status = "ok" /\ r.nrows = 1 /\ Len(emitted[c]) = 1)
                   /\ ~exec_log[c][1].ok => (r.status = "err" /\ r.nrows = 0)
              ELSE r.status = "ok" /\ r.nrows = 0
    /\ \A t \in Threads : InFunc(t) => first[t]

\* a first poll that emitted its row, and a later poll of the same call that
\* came back empty
C2_Witness ==
    \E c \in Calls :
        /\ [status |-> "ok", nrows |-> 1, first |-> TRUE] \in results[c]
        /\ EmptyReturn \in results[c]
        /\ Len(exec_log[c]) = 1 /\ Len(emitted[c]) = 1

\* C3 as stated: after a poll whose statement failed, the done flag of the
\* call is still unset.
C3_Original ==
    \A c \in Calls :
        (\E r \in results[c] : r.status = "err") => done[c] = FALSE

\* C3 (amended): a poll whose statement failed returns the error and no row,
\* and the done flag of its call is set: the swap precedes the execution.
C3_FailedPollLeavesFlagSet ==
    \A c \in Calls :
        \A r \in results[c] :
            r.status = "err" =>
                /\ r.nrows = 0
                /\ Len(exec_log[c]) >= 1 /\ ~exec_log[c][1].ok
                /\ done[c] = TRUE

\* a first poll came back with the error of its statement
C3_Witness ==
    \E c \in Calls :
        /\ [status |-> "err", nrows |-> 0, first |-> TRUE] \in results[c]
        /\ exec_log[c] # <<>> /\ ~exec_log[c][1].ok

\* C4: a row is emitted for a call only if the statement of that call was
\* executed successfully, and a poll that returns an error emits no row.
C4_NoRowWithFailure ==
    \A c \in Calls :
        /\ emitted[c] # <<>> => \E i \in 1..Len(exec_log[c]) : exec_log[c][i].ok
        /\ \A r \in results[c] :
              /\ r.status = "err" => r.nrows = 0
              /\ r.nrows > 0 => r.status = "ok"
        /\ (\A r \in results[c] : r.nrows = 0) => emitted[c] = <<>>

\* a failed poll and a concurrent empty poll of the same call, no row anywhere
C4_Witness ==
    \E c \in Calls :
        /\ \E r \in results[c] : r.status = "err"
        /\ EmptyReturn \in results[c]
        /\ emitted[c] = <<>>
        /\ \A i \in 1..Len(exec_log[c]) : ~exec_log[c][i].ok

\* C5: at most one thread is inside execute_batch; a thread is there, or has
\* just left it, exactly while it holds the mutex, so the mutex is free again
\* once func has returned, with a row or with an error.
C5_MutualExclusion ==
    /\ Cardinality({t \in Threads : pc[t] = "run"}) <= 1
    /\ \A t \in Threads : (pc[t] \in {"run", "unlock"}) <=> (lock = t)

\* one call is executing its statement while a poll of another call waits
C5_Witness ==
    \E t1, t2 \in Threads :
        /\ cur[t1] # cur[t2]
        /\ pc[t1] = "run" /\ lock = t1
        /\ pc[t2] = "lock"

\* the password the call's document holds under the call's key
RecoveredPassword(c) == Document[params[c].secret_key].s

SameTarget(c1, c2) ==
    /\ params[c1].host = params[c2].host
    /\ params[c1].port = params[c2].port
    /\ params[c1].database = params[c2].database
    /\ params[c1].user = params[c2].user

\* C7: calls that agree on host, port, database and user emit the same row
\* whatever password they recovered; no row contains the password; and the
\* bind data has no field for it besides the statement text.
C7_RowIndependentOfPassword ==
    /\ \A c1, c2 \in Calls :
          (emitted[c1] # <<>> /\ emitted[c2] # <<>> /\ SameTarget(c1, c2))
              => emitted[c1] = emitted[c2]
    /\ \A c \in Calls :
          \A i \in 1..Len(emitted[c]) : ~Contains(emitted[c][i], RecoveredPassword(c))
    /\ \A c \in Calls :
          bound[c].ok =>
              /\ DOMAIN bound[c].data = {"host", "port", "database", "user", "create_secret_sql"}
              /\ bound[c].data.host = params[c].host
              /\ bound[c].data.database = params[c].database
              /\ bound[c].data.user = params[c].user

\* two calls with one target and two passwords have both emitted their row
C7_Witness ==
    \E c1, c2 \in Calls :
        /\ emitted[c1] # <<>> /\ emitted[c2] # <<>>
        /\ SameTarget(c1, c2)
        /\ RecoveredPassword(c1) # RecoveredPassword(c2)
        /\ exec_log[c1][1].sql # exec_log[c2][1].sql

DecryptedOnce(c) ==
    /\ Count("decrypt", bound[c].stages) = 1
    /\ Count("lookup", bound[c].stages) = 1

\* C8: decryption and extraction ran exactly once, inside bind, for every call
\* that is polled or has executed its statement, and no step taken after bind
\* has returned touches what bind produced.
C8_DecryptOnceAtBind ==
    /\ [](\A c \in Calls :
            /\ Count("decrypt", bound[c].stages) <= 1
            /\ (phase[c] \in {"bound", "inited"} \/ polled[c] \/ exec_log[c] # <<>>)
                  => (bound[c].ok /\ DecryptedOnce(c)))
    /\ [][\A c \in Calls : phase[c] \in {"bound", "inited", "failed"} => bound'[c] = bound[c]]_vars

\* a call was executed and polled again, after one decryption
C8_Witness ==
    \E c \in Calls :
        /\ exec_log[c] # <<>>
        /\ EmptyReturn \in results[c]
        /\ \E r \in results[c] : r.first
        /\ DecryptedOnce(c)

Aliases == {str_postgres, str_postgresql, str_mysql}

UpperAlias == [a \in Aliases |-> [i \in 1..Len(a) |-> ToUpperChar(a[i])]]

\* s spells one of the three aliases, in any letter case
IsSupportedSpelling(s) ==
    \E a \in Aliases :
        /\ Len(s) = Len(a)
        /\ \A i \in 1..Len(a) : s[i] = a[i] \/ s[i] = UpperAlias[a][i]

DigitSet == {Digits[j] : j \in 1..Len(Digits)}

\* s is an optional sign followed by one or more decimal digits
IsDecimalText(s) ==
    LET body == IF Len(s) > 0 /\ s[1] \in {"+", "-"} THEN Tail(s) ELSE s IN
    Len(body) > 0 /\ \A i \in 1..Len(body) : body[i] \in DigitSet

FileStages ==
    {"read_secrets", "read_identity", "parse_identity", "load_identities",
     "parse_container", "decrypt", "read_plaintext", "parse_json", "lookup", "build_sql"}

NothingRan(c) ==
    /\ phase[c] = "failed"
    /\ \A i \in 1..Len(bound[c].stages) : bound[c].stages[i] \notin FileStages
    /\ "data" \notin DOMAIN bound[c]
    /\ exec_log[c] = <<>>
    /\ ~polled[c]
    /\ results[c] = {} /\ emitted[c] = <<>>
    /\ \A t \in Threads : cur[t] # c

\* C9: a bind whose backend kind is no supported alias fails with
\* UnsupportedBackendError, and one whose port is no integer fails with
\* InvalidPortError, before any file is read or decrypted; no statement is
\* built and none is ever executed for that call.
C9_FailFast ==
    \A c \in Calls :
        phase[c] # "new" =>
            IF ~IsSupportedSpelling(params[c].db_type)
            THEN bound[c].kind = "UnsupportedBackendError" /\ NothingRan(c)
            ELSE ~IsDecimalText(params[c].port) =>
                    (bound[c].kind = "InvalidPortError" /\ NothingRan(c))

\* both failures were seen, each on a call whose secrets file is missing too
C9_Witness ==
    \E c1, c2 \in Calls :
        /\ phase[c1] = "failed" /\ bound[c1].kind = "UnsupportedBackendError"
        /\ params[c1].secrets_file = sf_missing /\ ~IsDecimalText(params[c1].port)
        /\ phase[c2] = "failed" /\ bound[c2].kind = "InvalidPortError"
        /\ params[c2].secrets_file = sf_missing

\* ------------------------------------------------------------------------
\* Properties of bind and of the backend kind
\* ------------------------------------------------------------------------

\* the text a document value is made of
BareText(v) == IF v.kind = "string" THEN v.s ELSE IntText(v.n)

\* C6: no error text of a failed bind contains a value of the decrypted
\* document; a wrong-typed value is reported by its kind, never by itself.
C6_NoPlaintextInErrors ==
    (fn_out.set /\ ~fn_out.val.ok) =>
        \A k \in DOMAIN Document : ~Contains(fn_out.val.err, BareText(Document[k]))

\* C10: every spelling of postgres and postgresql selects the provider tagged
\* postgres, every spelling of mysql the provider tagged mysql, and every other
\* string is refused with the unknown-kind error.
C10_BackendKind ==
    fn_out.set =>
        /\ fn_in.val \in (CaseVariants(str_postgres) \cup CaseVariants(str_postgresql)) =>
              (fn_out.val.ok /\ fn_out.val.tag = str_postgres)
        /\ fn_in.val \in CaseVariants(str_mysql) =>
              (fn_out.val.ok /\ fn_out.val.tag = str_mysql)
        /\ fn_in.val \in OtherKinds =>
              (~fn_out.val.ok /\ fn_out.val.err[1] = "Unknown db_type '")

\* a mixed-case spelling of the longer alias was parsed
C10_Witness ==
    /\ fn_out.set /\ fn_out.val.ok
    /\ fn_in.val = <<"P","o","s","t","g","r","e","S","Q","L">>
    /\ fn_out.val.tag = str_postgres

\* ------------------------------------------------------------------------
\* Properties of the port
\* ------------------------------------------------------------------------

\* the value of one decimal digit, from a table
DigitOf(ch) ==
    CASE ch = "0" -> 0 [] ch = "1" -> 1 [] ch = "2" -> 2 [] ch = "3" -> 3 [] ch = "4" -> 4
      [] ch = "5" -> 5 [] ch = "6" -> 6 [] ch = "7" -> 7 [] ch = "8" -> 8 [] ch = "9" -> 9

RECURSIVE Pow10(_)
Pow10(n) == IF n = 0 THEN 1 ELSE 10 * Pow10(n - 1)

RECURSIVE SumPlaces(_, _)
SumPlaces(s, i) ==
    IF i > Len(s) THEN 0
    ELSE DigitOf(s[i]) * Pow10(Len(s) - i) + SumPlaces(s, i + 1)

\* the integer a short signed decimal text denotes, by place value
DecimalValue(s) ==
    IF s[1] = "-" THEN 0 - SumPlaces(Tail(s), 1)
    ELSE IF s[1] = "+" THEN SumPlaces(Tail(s), 1)
    ELSE SumPlaces(s, 1)

\* what the edge texts denote, where that fits an i32
EdgeValues ==
    (txt_i32_max :> I32_MAX) @@ (txt_i32_min :> I32_MIN) @@ (txt_padded_max :> I32_MAX)
    @@ (<<"5","4","3","2">> :> 5432) @@ (<<"-","5","4","3","2">> :> 0 - 5432)

\* C11 as stated: every text that is not an integer is refused, and every
\* text that is a valid integer, negative ones included, is accepted.
C11_Original ==
    fn_out.set =>
        IF IsDecimalText(fn_in.val)
        THEN fn_out.val.ok
        ELSE ~fn_out.val.ok /\ fn_out.val.kind = "InvalidPortError"

\* C11 (amended): every text that is not an integer is refused with
\* InvalidPortError; every integer that fits a 32-bit signed integer, negative
\* ones included, is accepted and yields that integer; an integer outside that
\* range is refused with InvalidPortError as well.
C11_PortParse ==
    fn_out.set =>
        /\ ~IsDecimalText(fn_in.val) =>
              (~fn_out.val.ok /\ fn_out.val.kind = "InvalidPortError"
               /\ Contains(fn_out.val.err, fn_in.val))
        /\ (IsDecimalText(fn_in.val) /\ Len(fn_in.val) <= MaxPortLen) =>
              (fn_out.val.ok /\ fn_out.val.val = DecimalValue(fn_in.val))
        /\ fn_in.val \in DOMAIN EdgeValues =>
              (fn_out.val.ok /\ fn_out.val.val = EdgeValues[fn_in.val])
        /\ fn_in.val \in {txt_over_max, txt_under_min, txt_eleven_nines} =>
              (~fn_out.val.ok /\ fn_out.val.kind = "InvalidPortError")

\* a negative port was parsed, and so was the least i32
C11_Witness ==
    /\ fn_out.set /\ fn_out.val.ok
    /\ fn_in.val \in {<<"-","7","7">>, txt_i32_min}
    /\ fn_out.val.val < 0

\* ------------------------------------------------------------------------
\* Properties of the statement builder
\* ------------------------------------------------------------------------

IndexOf(stmt, chunk) == CHOOSE i \in 1..Len(stmt) : stmt[i] = chunk

\* the closing quote of the string literal whose body starts at j: the first
\* quote from j on that is not the first of a doubled pair
RECURSIVE LiteralEnd(_, _)
LiteralEnd(stmt, j) ==
    IF j > Len(stmt) THEN j
    ELSE IF stmt[j] = "'"
         THEN (IF j < Len(stmt) /\ stmt[j + 1] = "'" THEN LiteralEnd(stmt, j + 2) ELSE j)
         ELSE LiteralEnd(stmt, j + 1)

\* replace each doubled quote by one quote
RECURSIVE Unescape(_)
Unescape(raw) ==
    IF Len(raw) = 0 THEN <<>>
    ELSE IF Head(raw) = "'" /\ Len(raw) >= 2 /\ raw[2] = "'"
         THEN <<"'">> \o Unescape(Tail(Tail(raw)))
         ELSE <<Head(raw)>> \o Unescape(Tail(raw))

\* the string literal that follows a keyword: where it opens, where it
\* closes, and the text in between
LiteralAfter(stmt, keyword) ==
    LET open  == IndexOf(stmt, keyword) + 1
        close == LiteralEnd(stmt, open + 1)
    IN  [opened |-> stmt[open] = "'",
         closed |-> close <= Len(stmt),
         next   |-> IF close < Len(stmt) THEN stmt[close + 1] ELSE "",
         raw    |-> SubSeq(stmt, open + 1, close - 1)]

\* the field is embedded after the keyword as a literal that ends where the
\* next part of the statement begins, with each of its quotes doubled
EmbedsField(stmt, keyword, follows, field) ==
    LET lit == LiteralAfter(stmt, keyword) IN
    /\ lit.opened /\ lit.closed /\ lit.next = follows
    /\ Count("'", lit.raw) = 2 * Count("'", field)
    /\ Unescape(lit.raw) = field

\* the text between two parts of the statement
Between(stmt, before, after) ==
    SubSeq(stmt, IndexOf(stmt, before) + 1, IndexOf(stmt, after) - 1)

\* C12: in the built statement each of host, database, user and password is
\* embedded as a string literal in which every single quote of the field is
\* doubled, so that replacing each doubled quote by one quote gives back the
\* field, and the port is embedded as a bare integer.
C12_EscapingRoundTrip ==
    fn_out.set =>
        LET stmt == fn_out.val
            f    == fn_in.val
            port == Between(stmt, ", PORT ", ", DATABASE ")
        IN  /\ EmbedsField(stmt, ", HOST ", ", PORT ", f.host)
            /\ EmbedsField(stmt, ", DATABASE ", ", USER ", f.database)
            /\ EmbedsField(stmt, ", USER ", ", PASSWORD ", f.user)
            /\ EmbedsField(stmt, ", PASSWORD ", " )", f.password)
            /\ IsDecimalText(port) /\ DecimalValue(port) = f.port

\* a statement was built from fields that all hold a quote
C12_Witness ==
    /\ fn_out.set
    /\ fn_in.val.host = <<"'", "a", "'">>
    /\ fn_in.val.database = <<"o", "'", "b">>
    /\ fn_in.val.user = <<"'">>
    /\ fn_in.val.password = <<"'", "'">>
    /\ fn_in.val.port < 0
    /\ Count("'", fn_out.val) = 22

\* the string literals of a statement in the order a SQL lexer meets them,
\* each with its un-escaped body and whether it was closed
RECURSIVE StringLiterals(_, _)
StringLiterals(stmt, j) ==
    IF j > Len(stmt) THEN <<>>
    ELSE IF stmt[j] = "'"
         THEN LET close == LiteralEnd(stmt, j + 1) IN
              <<[body   |-> Unescape(SubSeq(stmt, j + 1, close - 1)),
                 closed |-> close <= Len(stmt)]>>
              \o StringLiterals(stmt, close + 1)
         ELSE StringLiterals(stmt, j + 1)

IdentifierChars ==
    {LowerCase[i] : i \in 1..Len(LowerCase)} \cup {UpperCase[i] : i \in 1..Len(UpperCase)}
    \cup DigitSet \cup {"_"}

\* the part of the credential name that comes from the database name
CredentialSuffix(stmt) ==
    Between(stmt, "CREATE OR REPLACE SECRET duck_rage_", " ( TYPE ")

\* C13: for a database name that holds a single quote, the quote is doubled
\* in the statement, the single quotes of the statement are exactly those of
\* its four string literals (host, database, user, password, each closed),
\* and the credential name is one identifier token.
C13_WellFormedStatement ==
    (fn_out.set /\ Count("'", fn_in.val.database) > 0) =>
        LET stmt == fn_out.val
            f    == fn_in.val
        IN  /\ EmbedsField(stmt, ", DATABASE ", ", USER ", f.database)
            /\ StringLiterals(stmt, 1)
                   = << [body |-> f.host, closed |-> TRUE],
                        [body |-> f.database, closed |-> TRUE],
                        [body |-> f.user, closed |-> TRUE],
                        [body |-> f.password, closed |-> TRUE] >>
            /\ \A i \in 1..Len(CredentialSuffix(stmt)) :
                   CredentialSuffix(stmt)[i] \in IdentifierChars

\* ------------------------------------------------------------------------
\* Properties of the key lookup
\* ------------------------------------------------------------------------

\* C14: for every decrypted document and key, a key absent from the document
\* gives KeyNotFoundError, a key whose value is not a string gives
\* KeyTypeError, and a key whose value is a string gives that string
\* unchanged, neither trimmed nor escaped.
C14_PayloadExtraction ==
    fn_out.set =>
        LET map == fn_in.val.map
            key == fn_in.val.key
            r   == fn_out.val
        IN  IF key \notin DOMAIN map
            THEN ~r.ok /\ r.kind = "KeyNotFoundError"
            ELSE IF map[key].kind = "string"
                 THEN r.ok /\ r.val = map[key].s
                 ELSE ~r.ok /\ r.kind = "KeyTypeError"

\* a string with spaces around it was returned from a document that also
\* holds a number
C14_Witness ==
    /\ fn_out.set /\ fn_out.val.ok
    /\ fn_out.val.val = <<" ", "x", " ">>
    /\ \E k \in DOMAIN fn_in.val.map : fn_in.val.map[k].kind = "number"

\* ------------------------------------------------------------------------
\* Properties of the call protocol: retries, the credential name, the order
\* of the checks in bind
\* ------------------------------------------------------------------------

\* the statement of call c was handed to the connection and refused
ExecutionFailed(c) == exec_log[c] # <<>> /\ ~exec_log[c][1].ok

\* C15: once the statement of a call has failed, no poll of that call,
\* running at the same time or started later, gets past the done flag, and
\* the statement is not handed to the connection again: a call sees at most
\* one execution attempt.
C15_NoRetry ==
    /\ [](\A c \in Calls : Len(exec_log[c]) <= 1)
    /\ [][\A c \in Calls :
            ExecutionFailed(c) =>
                /\ exec_log'[c] = exec_log[c]
                /\ done[c] /\ done'[c]
                /\ \A t \in Threads : cur'[t] = c => cur[t] = c]_vars

\* the statement of a call failed, the failing poll reported it, another
\* poll of the call came back empty, and no poll of the call is running
C15_Witness ==
    \E c \in Calls :
        /\ ExecutionFailed(c)
        /\ Len(exec_log[c]) = 1
        /\ \E r \in results[c] : r.status = "err" /\ r.first
        /\ \E r \in results[c] : r.status = "ok" /\ r.nrows = 0 /\ ~r.first
        /\ \A t \in Threads : cur[t] # c
\* the credential name as the confirmation row spells it, after duck_rage_
RowCredentialSuffix(row) == Between(row, "Secret 'duck_rage_", "' created for ")

\* C16: for every database name, the credential name in the confirmation row
\* of a bound call is the credential name that follows CREATE OR REPLACE
\* SECRET in the statement of that call.
C16_SameCredentialName ==
    (fn_out.set /\ fn_out.val.ok) =>
        RowCredentialSuffix(ConfirmationText(fn_out.val.data))
            = CredentialSuffix(fn_out.val.data.create_secret_sql)


\* the failure points of bind in the order the claim lists them, with the
\* step between decryption and payload parse that reads the plaintext
BindOrder ==
    <<"parse_db_type", "parse_port", "read_secrets", "read_identity", "parse_identity",
      "load_identities", "parse_container", "decrypt", "read_plaintext", "parse_json",
      "lookup">>

\* the error each failure point reports
StageKind(stage) ==
    CASE stage = "parse_db_type"   -> "UnsupportedBackendError"
      [] stage = "parse_port"      -> "InvalidPortError"
      [] stage = "read_secrets"    -> "IoError"
      [] stage = "read_identity"   -> "IoError"
      [] stage = "parse_identity"  -> "IdentityParseError"
      [] stage = "load_identities" -> "IdentityLoadError"
      [] stage = "parse_container" -> "DecryptionError"
      [] stage = "decrypt"         -> "DecryptionError"
      [] stage = "read_plaintext"  -> "DecryptionError"
      [] stage = "parse_json"      -> "MalformedPayloadError"
      [] stage = "lookup"          -> IF fn_in.val.secret_key = key_none
                                      THEN "KeyNotFoundError" ELSE "KeyTypeError"

\* the input p is faulty for a failure point, whatever the other inputs are
Faulty(stage, p) ==
    CASE stage = "parse_db_type"   -> ~IsSupportedSpelling(p.db_type)
      [] stage = "parse_port"      -> ~IsDecimalText(p.port)
      [] stage = "read_secrets"    -> p.secrets_file = sf_missing
      [] stage = "read_identity"   -> p.identity_file = if_missing
      [] stage = "parse_identity"  -> p.identity_file = if_garbage
      [] stage = "load_identities" -> p.identity_file = if_plugin
      [] stage = "parse_container" -> p.secrets_file = sf_garbage
      [] stage = "decrypt"         -> p.secrets_file = sf_other
      [] stage = "read_plaintext"  -> p.secrets_file = sf_binary
      [] stage = "parse_json"      -> p.secrets_file = sf_text
      [] stage = "lookup"          -> p.secret_key \in {key_none, key_pin}

FaultyStages(p) == {i \in 1..Len(BindOrder) : Faulty(BindOrder[i], p)}

EarliestFault(p) == CHOOSE i \in FaultyStages(p) : \A j \in FaultyStages(p) : i <= j

\* C17: bind reports the error of the earliest failure point whose input is
\* faulty, in the order backend kind, port, secrets file read, identity file
\* read, identity parse, identity load, container parse, decryption, payload
\* parse, key lookup; the failure points before it ran, in that order, and
\* none after it; with no faulty input bind succeeds.
C17_EarliestFailureWins ==
    fn_out.set =>
        LET p == fn_in.val
            r == fn_out.val
        IN  IF FaultyStages(p) = {}
            THEN r.ok /\ r.stages = BindOrder \o <<"build_sql">>
            ELSE /\ ~r.ok
                 /\ r.kind = StageKind(BindOrder[EarliestFault(p)])
                 /\ r.stages = SubSeq(BindOrder, 1, EarliestFault(p))

\* bind stopped at the identity load although the secrets file is no
\* container and the key is absent; the backend kind and the port were fine
C17_Witness ==
    /\ fn_out.set /\ ~fn_out.val.ok
    /\ fn_in.val.secrets_file = sf_garbage
    /\ fn_in.val.identity_file = if_plugin
    /\ fn_in.val.secret_key = key_none
    /\ fn_out.val.kind = "IdentityLoadError"
    /\ Cardinality(FaultyStages(fn_in.val)) = 3

====
